---- MODULE Spec2Model ----
(***************************************************************************)
(* Model of marco_momentum.py: the 13612W momentum score, the month-end    *)
(* rebalancing schedule and the backtest loop that compounds the portfolio *)
(* value, followed by the month-to-date report.                            *)
(*                                                                         *)
(* Dates are calendar-day numbers 1, 2, 3, ...  A calendar month is        *)
(* DaysPerMonth consecutive days and a week is 7 days of which two are     *)
(* not trading days.  Prices are positive integers, 0 stands for NaN, and  *)
(* every derived real number is an exact fraction [n |-> .., d |-> ..].    *)
(***************************************************************************)
EXTENDS Integers, Sequences, FiniteSets

\* ---------------------------------------------------------------- bounds
NumCal == 385          \* calendar days covered by the downloaded table
DaysPerMonth == 10     \* calendar days in a calendar month
MaxTopN == 4           \* largest "Number of Top Momentum Assets" tried
GrowLen == 10          \* trading days a rising asset keeps rising

\* ------------------------------------------------------ program constants
Window == 252          \* rolling(window=252)
Off1 == 21             \* prices.iloc[-21]
Off3 == 63             \* prices.iloc[-63]
Off6 == 126            \* prices.iloc[-126]
Off12 == 252           \* prices.iloc[-252]
NaN == 0               \* np.nan in the price table
NoneDate == 0          \* momentum_start_date = None
NonePortfolio == <<>>  \* current_portfolio = None

symbols == <<"A", "B", "C">>
Assets == {symbols[k] : k \in 1..Len(symbols)}
ColumnOf(a) == CHOOSE k \in 1..Len(symbols) : symbols[k] = a

\* ------------------------------------------------------- exact fractions
RECURSIVE GCD(_, _)
GCD(a, b) == IF b = 0 THEN a ELSE GCD(b, a % b)
Abs(x) == IF x < 0 THEN -x ELSE x
Frac(n, d) ==
  LET g == GCD(Abs(n), Abs(d))
  IN  IF d < 0 THEN [n |-> -(n \div g), d |-> -(d \div g)]
                ELSE [n |-> n \div g, d |-> d \div g]
FInt(k) == [n |-> k, d |-> 1]
FAdd(x, y) == Frac(x.n * y.d + y.n * x.d, x.d * y.d)
FSub(x, y) == Frac(x.n * y.d - y.n * x.d, x.d * y.d)
FMul(x, y) ==
  LET a == Frac(x.n, y.d)
      b == Frac(y.n, x.d)
  IN  Frac(a.n * b.n, a.d * b.d)
FDiv(x, y) == FMul(x, [n |-> y.d, d |-> y.n])
FLess(x, y) == x.n * y.d < y.n * x.d
NaNScore == [n |-> 0, d |-> 0]
IsNaN(x) == x.d = 0

\* ------------------------------------------------------- the price table
\* The trading calendar of the download: weekdays of 1..NumCal that are not
\* inside the closure cl (a run of days with no quotes at all).
IsWeekend(c, wk) == ((c + wk) % 7) \in {5, 6}
IsTradingDay(c, wk, cl) == ~IsWeekend(c, wk) /\ ~(cl[1] <= c /\ c <= cl[2])
RECURSIVE TradingIndex(_, _, _, _)
TradingIndex(lo, hi, wk, cl) ==
  IF lo > hi THEN <<>>
  ELSE IF lo = hi THEN IF IsTradingDay(lo, wk, cl) THEN <<lo>> ELSE <<>>
  ELSE LET mid == (lo + hi) \div 2
       IN  TradingIndex(lo, mid, wk, cl) \o TradingIndex(mid + 1, hi, wk, cl)

RECURSIVE Pow2(_)
Pow2(k) == IF k <= 0 THEN 1 ELSE 2 * Pow2(k - 1)
Clamp(x, lo, hi) == IF x < lo THEN lo ELSE IF x > hi THEN hi ELSE x
\* Adjusted close of one asset on row r: NaN before its first quote, then
\* (after the forward fill) a price that is flat, steps once, or doubles on
\* every trading day for GrowLen days.
PriceAt(p, r) ==
  IF r < p.first THEN NaN
  ELSE IF p.kind = "grow" THEN p.base * Pow2(Clamp(r - p.at, 0, GrowLen))
  ELSE IF r < p.at THEN p.base ELSE p.to

\* ------------------------------------------------------------ the program
VARIABLES
  index,                 \* data.index: the calendar day of every row
  data,                  \* data[a][r]: forward-filled adjusted close
  initial_capital,
  top_n_assets,
  momentum,              \* momentum[a][r]
  momentum_start_date,
  rebalancing_dates,
  portfolio_value,
  portfolio_values,
  portfolio_dates,
  current_portfolio,
  i,                     \* position of the backtest loop in rebalancing_dates
  portfolio_mtd_return,
  pc

vars == <<index, data, initial_capital, top_n_assets, momentum,
          momentum_start_date, rebalancing_dates, portfolio_value,
          portfolio_values, portfolio_dates, current_portfolio, i,
          portfolio_mtd_return, pc>>

NumRows == Len(index)
Rows == 1..NumRows

\* prices.iloc[k] for a negative position k
iloc(prices, k) == prices[Len(prices) + k + 1]

calculate_momentum_DaysBefore(prices) ==
  IF Len(prices) < Window THEN NaNScore
  ELSE LET p0 == iloc(prices, -1)
           p1 == iloc(prices, -(Off1 + 1))
           p3 == iloc(prices, -(Off3 + 1))
           p6 == iloc(prices, -(Off6 + 1))
           p12 == iloc(prices, -Off12)
       IN  FAdd(FAdd(FAdd(FMul(FInt(12), FSub(Frac(p0, p1), FInt(1))),
                          FMul(FInt(4), FSub(Frac(p0, p3), FInt(1)))),
                     FMul(FInt(2), FSub(Frac(p0, p6), FInt(1)))),
                FSub(Frac(p0, p12), FInt(1)))

calculate_momentum(prices) ==
  IF Len(prices) < Window THEN NaNScore
  ELSE LET p0 == iloc(prices, -1)
           p1 == iloc(prices, -Off1)
           p3 == iloc(prices, -Off3)
           p6 == iloc(prices, -Off6)
           p12 == iloc(prices, -Off12)
       IN  FAdd(FAdd(FAdd(FMul(FInt(12), FSub(Frac(p0, p1), FInt(1))),
                          FMul(FInt(4), FSub(Frac(p0, p3), FInt(1)))),
                     FMul(FInt(2), FSub(Frac(p0, p6), FInt(1)))),
                FSub(Frac(p0, p12), FInt(1)))

\* data.rolling(window=252).apply(calculate_momentum): a window that is not
\* yet full, or that holds a NaN, gives NaN without calling the function.
Rolling(col, r) ==
  IF r < Window \/ \E k \in (r - Window + 1)..r : col[k] = NaN
  THEN NaNScore
  ELSE calculate_momentum(SubSeq(col, r - Window + 1, r))

\* momentum.dropna(): the rows in which every asset has a score
DropnaRows(m) == {r \in Rows : \A a \in Assets : ~IsNaN(m[a][r])}
FirstRow(S) == CHOOSE r \in S : \A q \in 1..(r - 1) : q \notin S

\* Calendar months: month m is the days m*DaysPerMonth+1 .. (m+1)*DaysPerMonth
MonthOf(c) == (c - 1) \div DaysPerMonth
MonthEnd(m) == (m + 1) * DaysPerMonth
\* date - pd.offsets.MonthBegin(1): back to the first day of the month, or of
\* the month before when date already is a first day
MonthBeginBefore(c) ==
  IF c = MonthOf(c) * DaysPerMonth + 1 THEN (MonthOf(c) - 1) * DaysPerMonth + 1
  ELSE MonthOf(c) * DaysPerMonth + 1

\* data.resample('M').last().index: one label per calendar month from the
\* month of the first row to the month of the last row, each label being the
\* last calendar day of its month
ResampleIndex ==
  LET m0 == MonthOf(index[1])
      m1 == MonthOf(index[NumRows])
  IN  [k \in 1..(m1 - m0 + 1) |-> MonthEnd(m0 + k - 1)]

RECURSIVE KeepAfter(_, _, _)
KeepAfter(s, k, bound) ==
  IF k > Len(s) THEN <<>>
  ELSE IF s[k] > bound THEN <<s[k]>> \o KeepAfter(s, k + 1, bound)
  ELSE KeepAfter(s, k + 1, bound)
RECURSIVE KeepFrom(_, _, _)
KeepFrom(s, k, bound) ==
  IF k > Len(s) THEN <<>>
  ELSE IF s[k] >= bound THEN <<s[k]>> \o KeepFrom(s, k + 1, bound)
  ELSE KeepFrom(s, k + 1, bound)
DatesAfter_Inclusive(dates, start) == KeepFrom(dates, 1, start)
\* rebalancing_dates[rebalancing_dates > momentum_start_date]
DatesAfter(dates, start) == KeepAfter(dates, 1, start)

\* Label lookups on the sorted index: the number of rows dated c or earlier
RECURSIVE SearchSorted(_, _, _)
SearchSorted(lo, hi, c) ==
  IF lo > hi THEN lo - 1
  ELSE LET mid == (lo + hi) \div 2
       IN  IF index[mid] <= c THEN SearchSorted(mid + 1, hi, c)
           ELSE SearchSorted(lo, mid - 1, c)
RowsUpTo(c) == SearchSorted(1, NumRows, c)
InIndex(date) == RowsUpTo(date) >= 1 /\ index[RowsUpTo(date)] = date
RowOf(date) == RowsUpTo(date)

\* momentum.loc[date].dropna().nlargest(n).index: the assets with a score,
\* highest first, equal scores in column order, at most n of them
Better_Smallest(m, r, a, b) ==
  \/ FLess(m[a][r], m[b][r])
  \/ m[a][r] = m[b][r] /\ ColumnOf(a) < ColumnOf(b)
Better(m, r, a, b) ==
  \/ FLess(m[b][r], m[a][r])
  \/ m[a][r] = m[b][r] /\ ColumnOf(a) < ColumnOf(b)
RECURSIVE NLargest(_, _, _, _)
NLargest(m, r, n, taken) ==
  LET rest == {a \in Assets : ~IsNaN(m[a][r]) /\ a \notin taken}
  IN  IF n = 0 \/ rest = {} THEN <<>>
      ELSE LET top == CHOOSE a \in rest :
                        \A b \in rest \ {a} : Better(m, r, a, b)
           IN  <<top>> \o NLargest(m, r, n - 1, taken \cup {top})
TopAssets(m, r, n) == NLargest(m, r, n, {})

\* month_data = data.loc[date - MonthBegin(1) : date][top_assets]
MonthRows(date) ==
  (RowsUpTo(MonthBeginBefore(date) - 1) + 1)..RowsUpTo(date)
\* month_data.pct_change().dropna(): the first row of the slice has no
\* return, and a row is dropped when any selected asset has none
HasReturn_FromPriorClose(date, a, r) ==
  /\ r > 1
  /\ data[a][r] # NaN
  /\ data[a][r - 1] # NaN
HasReturn(date, a, r) ==
  /\ r - 1 \in MonthRows(date)
  /\ data[a][r] # NaN
  /\ data[a][r - 1] # NaN
ReturnRows(date, top) ==
  {r \in MonthRows(date) : \A k \in 1..Len(top) : HasReturn(date, top[k], r)}
pct_change(a, r) == FSub(Frac(data[a][r], data[a][r - 1]), FInt(1))
RECURSIVE SumReturns(_, _, _)
SumReturns(top, k, r) ==
  IF k > Len(top) THEN FInt(0)
  ELSE FAdd(pct_change(top[k], r), SumReturns(top, k + 1, r))
\* .mean(axis=1)
MeanReturn(top, r) == FDiv(SumReturns(top, 1, r), FInt(Len(top)))
\* (1 + monthly_returns).prod()
RECURSIVE ProdGross(_, _, _, _)
ProdGross(date, top, r, last) ==
  IF r > last THEN FInt(1)
  ELSE IF r \in ReturnRows(date, top)
       THEN FMul(FAdd(FInt(1), MeanReturn(top, r)),
                 ProdGross(date, top, r + 1, last))
       ELSE ProdGross(date, top, r + 1, last)
cumulative_return(date, top) ==
  FSub(ProdGross(date, top, RowsUpTo(MonthBeginBefore(date) - 1) + 1,
                 RowsUpTo(date)), FInt(1))

\* ----------------------------------------------------------------- inputs
Capitals == {100, 250}
Late == NumCal + 1     \* an asset whose first quote never arrives
Flat(b) == [kind |-> "step", base |-> b, at |-> 1, to |-> b]
Step(b, r, t) == [kind |-> "step", base |-> b, at |-> r, to |-> t]
Grow(b, r) == [kind |-> "grow", base |-> b, at |-> r, to |-> b]
From(q, shape) == [first |-> q, kind |-> shape.kind, base |-> shape.base,
                   at |-> shape.at, to |-> shape.to]
\* The quote histories tried: for every asset its first quoted row and the
\* shape of its price
Histories ==
  { [A |-> From(1, Flat(2)), B |-> From(1, Step(1, 258, 2)),
     C |-> From(1, Step(3, 262, 2))],
    [A |-> From(1, Flat(1)), B |-> From(1, Grow(1, 254)),
     C |-> From(1, Flat(3))],
    [A |-> From(1, Step(2, 140, 4)), B |-> From(5, Step(4, 240, 2)),
     C |-> From(2, Step(1, 20, 3))],
    [A |-> From(1, Flat(3)), B |-> From(1, Flat(1)), C |-> From(1, Flat(2))],
    [A |-> From(1, Grow(1, 262)), B |-> From(1, Step(2, 266, 3)),
     C |-> From(1, Flat(1))],
    [A |-> From(1, Flat(2)), B |-> From(1, Step(1, 258, 2)),
     C |-> From(Late, Flat(3))],
    [A |-> From(Late, Flat(2)), B |-> From(Late, Flat(1)),
     C |-> From(Late, Flat(3))] }
Closures == { <<0, 0>>, <<361, 369>> }

Init ==
  /\ \E wk \in 0..6, cl \in Closures :
       /\ index = TradingIndex(1, NumCal, wk, cl)
       /\ \E h \in Histories :
            data = [a \in Assets |->
                     [r \in 1..Len(index) |-> PriceAt(h[a], r)]]
  /\ initial_capital \in Capitals
  /\ top_n_assets \in 1..MaxTopN
  /\ momentum = [a \in Assets |-> <<>>]
  /\ momentum_start_date = NoneDate
  /\ rebalancing_dates = <<>>
  /\ portfolio_value = FInt(0)
  /\ portfolio_values = <<>>
  /\ portfolio_dates = <<>>
  /\ current_portfolio = NonePortfolio
  /\ i = 0
  /\ portfolio_mtd_return = FInt(0)
  /\ pc = "momentum"

inputs == <<index, data, initial_capital, top_n_assets>>
portfolio == <<portfolio_value, portfolio_values, portfolio_dates,
               current_portfolio>>

\* line 85
ComputeMomentum ==
  /\ pc = "momentum"
  /\ momentum' = [a \in Assets |-> [r \in Rows |-> Rolling(data[a], r)]]
  /\ pc' = "display"
  /\ UNCHANGED <<inputs, portfolio, momentum_start_date, rebalancing_dates, i,
                 portfolio_mtd_return>>

\* line 90: momentum.dropna().iloc[0] raises IndexError on an empty frame
DisplayInitial ==
  /\ pc = "display"
  /\ pc' = IF DropnaRows(momentum) = {} THEN "raised" ELSE "init"
  /\ UNCHANGED <<inputs, portfolio, momentum, momentum_start_date,
                 rebalancing_dates, i, portfolio_mtd_return>>

\* lines 93-96
InitPortfolio ==
  /\ pc = "init"
  /\ portfolio_value' = FInt(initial_capital)
  /\ portfolio_values' = <<FInt(initial_capital)>>
  /\ portfolio_dates' = <<>>
  /\ current_portfolio' = NonePortfolio
  /\ pc' = "schedule"
  /\ UNCHANGED <<inputs, momentum, momentum_start_date, rebalancing_dates, i,
                 portfolio_mtd_return>>

\* lines 99-104
Schedule ==
  /\ pc = "schedule"
  /\ LET start == IF DropnaRows(momentum) # {}
                  THEN index[FirstRow(DropnaRows(momentum))]
                  ELSE NoneDate
     IN  /\ momentum_start_date' = start
         /\ rebalancing_dates' = IF start # NoneDate
                                 THEN DatesAfter(ResampleIndex, start)
                                 ELSE ResampleIndex
  /\ pc' = "button"
  /\ UNCHANGED <<inputs, portfolio, momentum, i, portfolio_mtd_return>>

\* line 107: the button is pressed, or the script ends here
RunBacktest ==
  /\ pc = "button"
  /\ i' = 1
  /\ pc' = "loop"
  /\ UNCHANGED <<inputs, portfolio, momentum, momentum_start_date,
                 rebalancing_dates, portfolio_mtd_return>>

NoBacktest ==
  /\ pc = "button"
  /\ pc' = "idle"
  /\ UNCHANGED <<inputs, portfolio, momentum, momentum_start_date,
                 rebalancing_dates, i, portfolio_mtd_return>>

\* lines 111-112
NoMomentum(date) ==
  \/ ~InIndex(date)
  \/ \A a \in Assets : IsNaN(momentum[a][RowOf(date)])

TooFew_Partial(top_assets) == Len(top_assets) < 1
\* line 116
TooFew(top_assets) == Len(top_assets) < top_n_assets

Compound_NoBase(value, ret) == FMul(value, ret)
\* line 127: portfolio_value *= (1 + cumulative_return)
Compound(value, ret) == FMul(value, FAdd(FInt(1), ret))

\* lines 110-132: one iteration of the backtest loop
RebalanceStep ==
  /\ pc = "loop"
  /\ i <= Len(rebalancing_dates)
  /\ LET date == rebalancing_dates[i]
         top_assets == TopAssets(momentum, RowOf(date), top_n_assets)
     IN  IF NoMomentum(date) THEN UNCHANGED portfolio
         ELSE IF TooFew(top_assets) THEN UNCHANGED portfolio
         ELSE IF ReturnRows(date, top_assets) = {} THEN UNCHANGED portfolio
         ELSE LET value == Compound(portfolio_value,
                                    cumulative_return(date, top_assets))
              IN  /\ portfolio_value' = value
                  /\ portfolio_values' = Append(portfolio_values, value)
                  /\ portfolio_dates' = Append(portfolio_dates, date)
                  /\ current_portfolio' = top_assets
  /\ i' = i + 1
  /\ UNCHANGED <<inputs, momentum, momentum_start_date, rebalancing_dates,
                 portfolio_mtd_return, pc>>

MtdReturn_HistoryOnly(values) ==
  IF Len(values) > 2
  THEN FMul(FSub(FDiv(values[Len(values)], values[Len(values) - 1]), FInt(1)),
            FInt(100))
  ELSE FInt(0)
\* lines 148-151
MtdReturn(values) ==
  IF Len(values) > 1
  THEN FMul(FSub(FDiv(values[Len(values)], values[Len(values) - 1]), FInt(1)),
            FInt(100))
  ELSE FInt(0)

Report ==
  /\ pc = "loop"
  /\ i > Len(rebalancing_dates)
  /\ portfolio_mtd_return' = MtdReturn(portfolio_values)
  /\ pc' = "done"
  /\ UNCHANGED <<inputs, portfolio, momentum, momentum_start_date,
                 rebalancing_dates, i>>

Next ==
  \/ ComputeMomentum
  \/ DisplayInitial
  \/ InitPortfolio
  \/ Schedule
  \/ RunBacktest
  \/ NoBacktest
  \/ RebalanceStep
  \/ Report

Spec == Init /\ [][Next]_vars

\* ================================================================ claims
Scheduled == pc \in {"button", "loop", "done", "idle"}
Computed == pc # "momentum"
Ascending(s) == \A k \in 1..(Len(s) - 1) : s[k] < s[k + 1]
Range(s) == {s[k] : k \in 1..Len(s)}
MonthLabels == {MonthEnd(m) : m \in MonthOf(index[1])..MonthOf(index[NumRows])}
Defined(a, r) == momentum[a][r].d # 0
\* the basket the loop picks at a date that is in the index
SelectedAt(d) == TopAssets(momentum, RowOf(d), top_n_assets)

\* C1: the rebalance-date sequence is strictly ascending and every date in
\* it is a trading date of the price table, the last one of its month.
C1_DatesAreTradingDates ==
  Scheduled =>
    /\ Ascending(rebalancing_dates)
    /\ \A d \in Range(rebalancing_dates) :
         /\ \E r \in Rows : index[r] = d
         /\ \A r \in Rows : MonthOf(index[r]) = MonthOf(d) => index[r] <= d

\* C2: the return compounded for the basket selected at date d is earned on
\* trading dates after d, never on dates on or before d.
C2_ReturnEarnedAfterSelection ==
  pc \in {"loop", "done"} =>
    \A k \in 1..Len(portfolio_dates) :
      LET d == portfolio_dates[k]
      IN  \A r \in ReturnRows(d, SelectedAt(d)) : index[r] > d

NumDefined(d) == Cardinality({a \in Assets : Defined(a, RowOf(d))})
Unsuccessful(d) ==
  \/ ~InIndex(d)
  \/ NumDefined(d) = 0
  \/ NumDefined(d) < top_n_assets
  \/ ReturnRows(d, SelectedAt(d)) = {}
InitialPortfolio ==
  /\ portfolio_value = FInt(initial_capital)
  /\ Tail(portfolio_values) = <<>>
  /\ portfolio_dates = <<>>
  /\ current_portfolio = NonePortfolio
\* C3: an unsuccessful rebalance step (no momentum row or every score
\* undefined, fewer than N assets with a score, or no valid return day)
\* leaves value, history and holdings as they were; and a run in which no
\* step succeeded ends with value = initial_capital, empty history, no
\* holdings.
C3_SkipKeepsState ==
  [][ /\ (pc = "loop" /\ i <= Len(rebalancing_dates)
          /\ Unsuccessful(rebalancing_dates[i])) => portfolio' = portfolio
      /\ (pc = "loop" /\ pc' = "done"
          /\ \A d \in Range(rebalancing_dates) : Unsuccessful(d))
           => InitialPortfolio' ]_vars
C3_Witness ==
  /\ pc = "done"
  /\ \E d \in Range(rebalancing_dates) : InIndex(d) /\ NumDefined(d) > 0
  /\ \A d \in Range(rebalancing_dates) : Unsuccessful(d)
  /\ InitialPortfolio

\* C4: the held basket is none, or exactly N distinct assets that all had a
\* score at the date they were selected, none of them scoring lower than an
\* asset with a score that was left out.
C4_FullTopBasket ==
  pc \in {"loop", "done"} =>
    \/ current_portfolio = NonePortfolio /\ portfolio_dates = <<>>
    \/ /\ portfolio_dates # <<>>
       /\ Len(current_portfolio) = top_n_assets
       /\ Cardinality(Range(current_portfolio)) = top_n_assets
       /\ LET r == RowOf(portfolio_dates[Len(portfolio_dates)])
          IN  \A a \in Range(current_portfolio) :
                /\ Defined(a, r)
                /\ \A b \in Assets \ Range(current_portfolio) :
                     Defined(b, r) => ~FLess(momentum[a][r], momentum[b][r])
C4_Witness ==
  /\ pc \in {"loop", "done"}
  /\ portfolio_dates # <<>>
  /\ Len(current_portfolio) = 2
  /\ LET r == RowOf(portfolio_dates[Len(portfolio_dates)])
     IN  \E a \in Range(current_portfolio), b \in Assets \ Range(current_portfolio) :
           Defined(b, r) /\ FLess(momentum[b][r], momentum[a][r])

\* the period return of a recorded date, recomputed from the price table
PeriodReturn(d) == cumulative_return(d, SelectedAt(d))
RECURSIVE Replay(_)
Replay(k) ==
  IF k = 0 THEN FInt(initial_capital)
  ELSE FMul(Replay(k - 1), FAdd(FInt(1), PeriodReturn(portfolio_dates[k])))
\* C5: compounding law.  One (date, value) entry per successful rebalance,
\* dates strictly ascending, every recorded value is the one before it
\* (initial_capital for the first) times 1 + that period's return, the last
\* recorded value is the current value, and the current value is
\* initial_capital times the product of (1 + period return) so far.
C5_CompoundingLaw ==
  pc \in {"loop", "done"} =>
    /\ Len(portfolio_values) = Len(portfolio_dates) + 1
    /\ Ascending(portfolio_dates)
    /\ Range(portfolio_dates) \subseteq
         {rebalancing_dates[k] : k \in 1..(i - 1)}
    /\ \A d \in Range(portfolio_dates) : ~Unsuccessful(d)
    /\ \A k \in 1..(i - 1) :
         ~Unsuccessful(rebalancing_dates[k])
           => rebalancing_dates[k] \in Range(portfolio_dates)
    /\ portfolio_values[1] = FInt(initial_capital)
    /\ \A k \in 1..Len(portfolio_dates) :
         portfolio_values[k + 1] =
           FMul(portfolio_values[k],
                FAdd(FInt(1), PeriodReturn(portfolio_dates[k])))
    /\ portfolio_values[Len(portfolio_values)] = portfolio_value
    /\ portfolio_value = Replay(Len(portfolio_dates))
C5_Witness ==
  /\ pc = "done"
  /\ Len(portfolio_dates) >= 2
  /\ \A k \in 1..Len(portfolio_dates) :
       portfolio_values[k + 1] # portfolio_values[k]

AnyDefined(r) == \E a \in Assets : Defined(a, r)
AllDefined(r) == \A a \in Assets : Defined(a, r)
FirstAnyDefined ==
  index[CHOOSE r \in Rows : AnyDefined(r) /\ \A q \in 1..(r - 1) : ~AnyDefined(q)]
FirstAllDefined ==
  index[CHOOSE r \in Rows : AllDefined(r) /\ \A q \in 1..(r - 1) : ~AllDefined(q)]
\* C6 (as claimed): the schedule is exactly the month-end dates that are not
\* before the first date at which at least one asset has a score.
C6_FromFirstAnyScore ==
  Scheduled =>
    LET start == FirstAnyDefined
    IN  /\ Ascending(rebalancing_dates)
        /\ Range(rebalancing_dates) = {d \in MonthLabels : d >= start}
\* C6 (amended): the schedule is exactly the month-end dates strictly after
\* the first date at which every asset has a score; a month-end equal to that
\* date is dropped and an asset whose score starts later delays the start.
C6_AfterFirstFullRow ==
  Scheduled =>
    LET start == FirstAllDefined
    IN  /\ momentum_start_date = start
        /\ Ascending(rebalancing_dates)
        /\ Range(rebalancing_dates) = {d \in MonthLabels : d > start}
C6_Witness ==
  /\ Scheduled
  /\ momentum_start_date \in MonthLabels
  /\ FirstAnyDefined < momentum_start_date
  /\ momentum_start_date \notin Range(rebalancing_dates)

EntirelyUndefined == \A a \in Assets : \A r \in Rows : ~Defined(a, r)
\* C7: when no asset has a score on any date, the schedule is empty and the
\* run ends without raising, in the initial portfolio state.
C7_UndefinedRunsClean ==
  (Computed /\ EntirelyUndefined) =>
    /\ pc # "raised"
    /\ Scheduled => rebalancing_dates = <<>>
    /\ pc = "done" => InitialPortfolio

\* the 13612W blend of a price and four earlier prices
Score13612W(p0, p1, p3, p6, p12) ==
  FAdd(FAdd(FAdd(FMul(FInt(12), FSub(Frac(p0, p1), FInt(1))),
                 FMul(FInt(4), FSub(Frac(p0, p3), FInt(1)))),
            FMul(FInt(2), FSub(Frac(p0, p6), FInt(1)))),
       FSub(Frac(p0, p12), FInt(1)))
\* C8 (as claimed): a defined score blends the price of its date with the
\* prices exactly 21, 63, 126 and 252 trading days before it.
C8_LookbackAsClaimed ==
  Computed =>
    \A a \in Assets : \A r \in Rows :
      (Defined(a, r) /\ r > Off12 /\ data[a][r - Off12] # NaN) =>
        momentum[a][r] =
             Score13612W(data[a][r], data[a][r - Off1], data[a][r - Off3],
                         data[a][r - Off6], data[a][r - Off12])
\* C8 (amended): a defined score blends the price of its date with the
\* prices exactly 20, 62, 125 and 251 trading days before it.
C8_LookbackOneShort ==
  Computed =>
    \A a \in Assets : \A r \in Rows :
      Defined(a, r) =>
        /\ r >= Off12
        /\ momentum[a][r] =
             Score13612W(data[a][r], data[a][r - (Off1 - 1)],
                         data[a][r - (Off3 - 1)], data[a][r - (Off6 - 1)],
                         data[a][r - (Off12 - 1)])
C8_Witness ==
  /\ Computed
  /\ \E a \in Assets : \E r \in Rows :
       /\ Defined(a, r)
       /\ r > Off12
       /\ data[a][r - Off1] # data[a][r - (Off1 - 1)]

\* a successful rebalance with N = 1 whose selected asset doubles on every
\* trading day of the month (the first one included)
DoublesAllMonth(d) ==
  /\ top_n_assets = 1
  /\ \A r \in MonthRows(d) :
       r > 1 /\ data[SelectedAt(d)[1]][r] = 2 * data[SelectedAt(d)[1]][r - 1]
TradingDaysInMonth(d) == Cardinality(MonthRows(d))
\* C9 (as claimed): when the single selected asset rises by a constant
\* factor (here 2) on every trading day, the period return compounds one daily return per trading
\* day of the month: 1 + periodReturn = 2^tradingDaysInMonth.
C9_OneReturnPerTradingDay ==
  pc \in {"loop", "done"} =>
    \A k \in 1..Len(portfolio_dates) :
      DoublesAllMonth(portfolio_dates[k]) =>
        /\ Cardinality(ReturnRows(portfolio_dates[k], SelectedAt(portfolio_dates[k])))
             = TradingDaysInMonth(portfolio_dates[k])
        /\ portfolio_values[k + 1] =
             FMul(portfolio_values[k],
                  FInt(Pow2(TradingDaysInMonth(portfolio_dates[k]))))
\* C9 (amended): in that case the first trading day of the month contributes
\* no return:
\* 1 + periodReturn = 2^(tradingDaysInMonth - 1).
C9_FirstDayHasNoReturn ==
  pc \in {"loop", "done"} =>
    \A k \in 1..Len(portfolio_dates) :
      DoublesAllMonth(portfolio_dates[k]) =>
        /\ Cardinality(ReturnRows(portfolio_dates[k], SelectedAt(portfolio_dates[k])))
             = TradingDaysInMonth(portfolio_dates[k]) - 1
        /\ portfolio_values[k + 1] =
             FMul(portfolio_values[k],
                  FInt(Pow2(TradingDaysInMonth(portfolio_dates[k]) - 1)))
C9_Witness ==
  /\ pc = "done"
  /\ \E k \in 1..Len(portfolio_dates) :
       /\ DoublesAllMonth(portfolio_dates[k])
       /\ TradingDaysInMonth(portfolio_dates[k]) >= 6

\* the recorded values of the successful rebalances
history == Tail(portfolio_values)
\* C10 (as claimed): the reported MTD return is the ratio of the last two
\* entries of the rebalance history minus one (as a percentage), and zero
\* when the history has fewer than two entries.
C10_FromHistoryOnly ==
  pc = "done" =>
    portfolio_mtd_return =
      IF Len(history) < 2 THEN FInt(0)
      ELSE FMul(FSub(FDiv(history[Len(history)], history[Len(history) - 1]),
                     FInt(1)), FInt(100))
\* C10 (amended): the ratio is taken over the value list that starts with
\* initial_capital, so the report is zero only when no rebalance succeeded;
\* after exactly one it is value/initial_capital - 1 (as a percentage).
C10_FromSeededValues ==
  pc = "done" =>
    portfolio_mtd_return =
      IF Len(history) = 0 THEN FInt(0)
      ELSE FMul(FSub(FDiv(history[Len(history)],
                          IF Len(history) = 1 THEN FInt(initial_capital)
                          ELSE history[Len(history) - 1]),
                     FInt(1)), FInt(100))
C10_Witness ==
  /\ pc = "done"
  /\ Len(history) = 1
  /\ portfolio_mtd_return # FInt(0)
====
